---------------------------- MODULE Spec2Model ----------------------------
(***************************************************************************)
(* Model of the pilosa URI type (src/ctl/common.go, package pilosa part):  *)
(* the address parser, the validated setters, the renderers, Equals, the   *)
(* pflag adapter and the wire / JSON codecs.                               *)
(*                                                                         *)
(* Go strings are TLA+ strings; Char, SubSeq, Len and \o are the only      *)
(* string operations used.  A nil pointer is the value Nil.                *)
(***************************************************************************)
EXTENDS Integers, Sequences, FiniteSets, TLC

VARIABLES
    intSize,  \* strconv.IntSize of the build: 32 or 64
    u,        \* the *URI the caller holds: Nil or [scheme, host, port]
    err,      \* the error returned by the last call (NoError for nil)
    op,       \* the name of the last call
    arg,      \* the arguments of the last call: [s |-> string, n |-> uint16]
    decoded,  \* TRUE once u has been written by DecodeURI or UnmarshalJSON
    other,    \* a second *URI: Equals' argument, the decode target
    wire,     \* the *internal.URI at hand: Nil or [Scheme, Host, Port]
    json,     \* the JSON bytes in flight, "" when none
    out       \* the value returned by the last render or comparison

vars == <<intSize, u, err, op, arg, decoded, other, wire, json, out>>

-----------------------------------------------------------------------------
(* Strings and characters *)

Nil == [nil |-> TRUE]

\* the i-th byte of s, "" outside it
Char(s, i) == IF i >= 1 /\ i <= Len(s) THEN SubSeq(s, i, i) ELSE ""

Lower == {"a", "b", "c", "d", "e", "f", "g", "h", "i", "j", "k", "l", "m",
          "n", "o", "p", "q", "r", "s", "t", "u", "v", "w", "x", "y", "z"}

Digits == {"0", "1", "2", "3", "4", "5", "6", "7", "8", "9"}

\* the class [+a-z]
SchemeClass == Lower \cup {"+"}

\* the class [0-9a-z.-]
HostClass == Digits \cup Lower \cup {".", "-"}

\* the class [:0-9a-fA-F]
BracketClass == Digits \cup {":", "a", "b", "c", "d", "e", "f",
                             "A", "B", "C", "D", "E", "F"}

\* cls+ anchored at both ends
MatchPlus(s, cls) == Len(s) >= 1 /\ \A i \in 1..Len(s) : Char(s, i) \in cls

\* MatchBracketed with the interior left unchecked
MatchBracketed_AnyInterior(s) ==
    /\ Len(s) >= 3
    /\ Char(s, 1) = "["
    /\ Char(s, Len(s)) = "]"

\* \[[:0-9a-fA-F]+\] anchored at both ends
MatchBracketed(s) ==
    /\ Len(s) >= 3
    /\ Char(s, 1) = "["
    /\ Char(s, Len(s)) = "]"
    /\ MatchPlus(SubSeq(s, 2, Len(s) - 1), BracketClass)

\* schemeRegexp.FindStringSubmatch(s) != nil
schemeRegexpMatch(s) == MatchPlus(s, SchemeClass)

\* hostRegexp.FindStringSubmatch(s) != nil
hostRegexpMatch(s) == MatchPlus(s, HostClass) \/ MatchBracketed(s)

(***************************************************************************)
(* addressRegexp.FindStringSubmatch(s).  The pattern is anchored, so a     *)
(* match is a split of s at i and j into (scheme "://")? host? (":" port)? *)
(* The result is the empty sequence for nil, else the groups 0..5 with ""  *)
(* for a group that did not take part.  Go prefers the greedy choice       *)
(* at each "?": the largest i, then the largest j.                         *)
(***************************************************************************)
SchemeEnds(s) ==
    { i \in 0..Len(s) :
        \/ i = 0
        \/ /\ i >= 4
           /\ SubSeq(s, i - 2, i) = "://"
           /\ MatchPlus(SubSeq(s, 1, i - 3), SchemeClass) }

HostEnds(s, i) ==
    { j \in i..Len(s) :
        /\ \/ j = i
           \/ MatchPlus(SubSeq(s, i + 1, j), HostClass)
           \/ MatchBracketed(SubSeq(s, i + 1, j))
        /\ \/ j = Len(s)
           \/ /\ Char(s, j + 1) = ":"
              /\ MatchPlus(SubSeq(s, j + 2, Len(s)), Digits) }

AddressSplits(s) == UNION { { <<i, j>> : j \in HostEnds(s, i) } : i \in SchemeEnds(s) }

addressRegexpSubmatch(s) ==
    LET splits == AddressSplits(s) IN
    IF splits = {} THEN <<>>
    ELSE LET ij == CHOOSE c \in splits :
                      \A d \in splits : d[1] < c[1] \/ (d[1] = c[1] /\ d[2] <= c[2])
             i == ij[1]
             j == ij[2]
         IN [k \in 0..5 |->
               CASE k = 0 -> s
                 [] k = 1 -> SubSeq(s, 1, i)
                 [] k = 2 -> IF i = 0 THEN "" ELSE SubSeq(s, 1, i - 3)
                 [] k = 3 -> SubSeq(s, i + 1, j)
                 [] k = 4 -> SubSeq(s, j + 1, Len(s))
                 [] k = 5 -> IF j = Len(s) THEN "" ELSE SubSeq(s, j + 2, Len(s))]

-----------------------------------------------------------------------------
(* Numbers: strconv.Atoi, the uint16 / uint32 conversions, %d *)

DigitVal(c) == CHOOSE d \in 0..9 : Char("0123456789", d + 1) = c

Uint16Mod == 65536

\* the largest int of a 32-bit and of a 64-bit build, in decimal
MaxIntDigits(bits) == IF bits = 32 THEN "2147483647" ELSE "9223372036854775807"

RECURSIVE TrimZeros(_)
TrimZeros(s) ==
    IF Len(s) > 1 /\ Char(s, 1) = "0" THEN TrimZeros(SubSeq(s, 2, Len(s))) ELSE s

\* a > b for two digit strings of equal length
RECURSIVE DigitsGreater(_, _)
DigitsGreater(a, b) ==
    IF Len(a) = 0 THEN FALSE
    ELSE IF Char(a, 1) # Char(b, 1) THEN DigitVal(Char(a, 1)) > DigitVal(Char(b, 1))
    ELSE DigitsGreater(SubSeq(a, 2, Len(a)), SubSeq(b, 2, Len(b)))

(***************************************************************************)
(* strconv.Atoi on a string of decimal digits (all the regexp lets         *)
(* through): a range error iff the value exceeds the largest int.  The     *)
(* value itself may exceed what TLC can hold, so the comparison is made on *)
(* the digits.                                                             *)
(***************************************************************************)
AtoiRangeError(s, bits) ==
    LET t == TrimZeros(s)
        m == MaxIntDigits(bits)
    IN Len(t) > Len(m) \/ (Len(t) = Len(m) /\ DigitsGreater(t, m))

(***************************************************************************)
(* uint16(port) for the int that Atoi returned for the digits s: the value *)
(* modulo 2^16, computed digit by digit: reduction modulo 2^16 commutes   *)
(* with the sums and products of the decimal expansion.                    *)
(***************************************************************************)
RECURSIVE Uint16OfDigits(_)
Uint16OfDigits(s) ==
    IF Len(s) = 0 THEN 0
    ELSE (Uint16OfDigits(SubSeq(s, 1, Len(s) - 1)) * 10 + DigitVal(Char(s, Len(s))))
            % Uint16Mod

\* fmt's %d of a non-negative integer
RECURSIVE FormatInt(_)
FormatInt(n) ==
    IF n < 10 THEN Char("0123456789", n + 1)
    ELSE FormatInt(n \div 10) \o Char("0123456789", (n % 10) + 1)

-----------------------------------------------------------------------------
(* Errors *)

NoError == "nil"
ErrInvalidScheme == "invalid scheme"
ErrInvalidHost == "invalid host"
ErrInvalidAddress == "invalid address"
ErrPortConversion == "converting port string to int"

-----------------------------------------------------------------------------
(* The URI type and its parser *)

DefaultPort == 10101

URI(scheme, host, port) == [scheme |-> scheme, host |-> host, port |-> port]

DefaultURI == URI("http", "localhost", DefaultPort)

\* parseAddress with the host taken from the match as it is, never defaulted
parseAddress_NoHostDefault(address, bits) ==
    LET m == addressRegexpSubmatch(address) IN
    IF m = <<>> THEN [uri |-> Nil, err |-> ErrInvalidAddress]
    ELSE IF m[5] # "" /\ AtoiRangeError(m[5], bits)
         THEN [uri |-> Nil, err |-> ErrPortConversion]
    ELSE [uri |-> URI(IF m[2] # "" THEN m[2] ELSE "http",
                      m[3],
                      IF m[5] # "" THEN Uint16OfDigits(m[5]) ELSE DefaultPort),
          err |-> NoError]

\* parseAddress(address): [uri |-> *URI, err |-> error]
parseAddress(address, bits) ==
    LET m == addressRegexpSubmatch(address) IN
    IF m = <<>> THEN [uri |-> Nil, err |-> ErrInvalidAddress]
    ELSE IF m[5] # "" /\ AtoiRangeError(m[5], bits)
         THEN [uri |-> Nil, err |-> ErrPortConversion]
    ELSE [uri |-> URI(IF m[2] # "" THEN m[2] ELSE "http",
                      IF m[3] # "" THEN m[3] ELSE "localhost",
                      IF m[5] # "" THEN Uint16OfDigits(m[5]) ELSE DefaultPort),
          err |-> NoError]

-----------------------------------------------------------------------------
(* The methods of URI as functions of the receiver's value: each returns   *)
(* the receiver's value after the call and the error returned.             *)

\* SetScheme that assigns before it validates
setScheme_AssignFirst(d, scheme) ==
    [uri |-> [d EXCEPT !.scheme = scheme],
     err |-> IF schemeRegexpMatch(scheme) THEN NoError ELSE ErrInvalidScheme]

\* (u *URI) SetScheme(scheme)
setScheme(d, scheme) ==
    IF ~schemeRegexpMatch(scheme) THEN [uri |-> d, err |-> ErrInvalidScheme]
    ELSE [uri |-> [d EXCEPT !.scheme = scheme], err |-> NoError]

\* SetHost that accepts every string
setHost_Unchecked(d, host) == [uri |-> [d EXCEPT !.host = host], err |-> NoError]

\* (u *URI) SetHost(host)
setHost(d, host) ==
    IF ~hostRegexpMatch(host) THEN [uri |-> d, err |-> ErrInvalidHost]
    ELSE [uri |-> [d EXCEPT !.host = host], err |-> NoError]

\* (u *URI) SetPort(port)
setPort(d, port) == [d EXCEPT !.port = port]

\* NewURIFromHostPort(host, port): [uri |-> *URI, err |-> error]
newURIFromHostPort(host, port) ==
    LET r == setHost(DefaultURI, host) IN
    IF r.err # NoError THEN [uri |-> Nil, err |-> r.err]
    ELSE [uri |-> setPort(r.uri, port), err |-> NoError]

\* Set that copies the parsed host and port and keeps the receiver's scheme
set_KeepScheme(d, value, bits) ==
    LET r == parseAddress(value, bits) IN
    IF r.err # NoError THEN [uri |-> d, err |-> r.err]
    ELSE [uri |-> [r.uri EXCEPT !.scheme = d.scheme], err |-> NoError]

\* (u *URI) Set(value), the pflag adapter
set(d, value, bits) ==
    LET r == parseAddress(value, bits) IN
    IF r.err # NoError THEN [uri |-> d, err |-> r.err]
    ELSE [uri |-> r.uri, err |-> NoError]

\* strings.Index(s, c) for a one-byte c, 0-based, -1 when absent
Index(s, c) ==
    IF \E i \in 1..Len(s) : Char(s, i) = c
    THEN (CHOOSE i \in 1..Len(s) :
            Char(s, i) = c /\ \A k \in 1..(i - 1) : Char(s, k) # c) - 1
    ELSE -1

\* strings.LastIndex(s, c)
LastIndex(s, c) ==
    IF \E i \in 1..Len(s) : Char(s, i) = c
    THEN (CHOOSE i \in 1..Len(s) :
            Char(s, i) = c /\ \A k \in (i + 1)..Len(s) : Char(s, k) # c) - 1
    ELSE -1

\* fmt.Sprintf("%s://%s:%d", scheme, host, port)
Sprintf(scheme, host, port) == scheme \o "://" \o host \o ":" \o FormatInt(port)

\* Normalize that cuts the scheme at its last "+"
Normalize_LastPlus(d) ==
    LET index == LastIndex(d.scheme, "+") IN
    Sprintf(IF index >= 0 THEN SubSeq(d.scheme, 1, index) ELSE d.scheme, d.host, d.port)

\* (u *URI) Normalize()
Normalize(d) ==
    LET index == Index(d.scheme, "+") IN
    Sprintf(IF index >= 0 THEN SubSeq(d.scheme, 1, index) ELSE d.scheme, d.host, d.port)

\* (u URI) String()
String(d) == Sprintf(d.scheme, d.host, d.port)

\* (u *URI) HostPort()
HostPort(d) == IF d = Nil THEN "" ELSE d.host \o ":" \o FormatInt(d.port)

\* (u *URI) Path(path)
Path(d, path) == Normalize(d) \o path

\* Equals that compares the dialing forms
Equals_Normalized(d, o) == IF o = Nil THEN FALSE ELSE Normalize(d) = Normalize(o)

\* (u URI) Equals(other *URI): Go's == on the struct compares field by field
Equals(d, o) ==
    IF o = Nil THEN FALSE
    ELSE d.scheme = o.scheme /\ d.host = o.host /\ d.port = o.port

-----------------------------------------------------------------------------
(* The wire codec *)

\* encodeURI(u): uint32(u.port) of a uint16 is the same number
encodeURI(d) == [Scheme |-> d.scheme, Host |-> d.host, Port |-> d.port]

\* decodeURI that narrows the port to 8 bits
decodeURI_Uint8(i) ==
    IF i = Nil THEN URI("", "", 0)
    ELSE URI(i.Scheme, i.Host, i.Port % 256)

\* decodeURI(i): uint16(i.Port) keeps the low 16 bits
decodeURI(i) ==
    IF i = Nil THEN URI("", "", 0)
    ELSE URI(i.Scheme, i.Host, i.Port % Uint16Mod)

\* encodeURIs(a): nil for a slice of length 0
encodeURIs(a) == IF Len(a) = 0 THEN Nil ELSE [k \in 1..Len(a) |-> encodeURI(a[k])]

\* decodeURIs(a): nil for a slice of length 0, which a nil slice is too
decodeURIs(a) == IF Len(a) = 0 THEN Nil ELSE [k \in 1..Len(a) |-> decodeURI(a[k])]

\* URIs.HostPortStrings()
HostPortStrings(a) == [k \in 1..Len(a) |-> HostPort(a[k])]

-----------------------------------------------------------------------------
(* The JSON codec.  json.Marshal and json.Unmarshal are modelled on the    *)
(* bytes: the encoder writes the object text, the decoder scans it.  The   *)
(* decoder covers what a URI object can hold: a flat object (or null) of   *)
(* string, integer, true, false and null values, with spaces between       *)
(* tokens.                                                                  *)

ErrJSONSyntax == "json: syntax error"
ErrJSONType == "json: cannot unmarshal into Go value"

\* s[i:j] of the bytes i..j, "" when they are not all there
Slice(s, i, j) == IF i >= 1 /\ j <= Len(s) /\ i <= j THEN SubSeq(s, i, j) ELSE ""

\* the encoder's escape of one byte (HTML escaping is on by default)
EscapeChar(c) ==
    CASE c = "\"" -> "\\\""
      [] c = "\\" -> "\\\\"
      [] c = "<"  -> "\\u003c"
      [] c = ">"  -> "\\u003e"
      [] c = "&"  -> "\\u0026"
      [] OTHER    -> c

RECURSIVE Escape(_)
Escape(s) == IF Len(s) = 0 THEN "" ELSE EscapeChar(Char(s, 1)) \o Escape(SubSeq(s, 2, Len(s)))

Quote(s) == "\"" \o Escape(s) \o "\""

RECURSIVE Join(_, _)
Join(parts, sep) ==
    IF Len(parts) = 0 THEN ""
    ELSE IF Len(parts) = 1 THEN parts[1]
    ELSE parts[1] \o sep \o Join(Tail(parts), sep)

\* (u *URI) MarshalJSON(): the fields in order, each omitted when zero
marshalJSON(d) ==
    "{" \o Join((IF d.scheme # "" THEN <<"\"scheme\":" \o Quote(d.scheme)>> ELSE <<>>)
                \o (IF d.host # "" THEN <<"\"host\":" \o Quote(d.host)>> ELSE <<>>)
                \o (IF d.port # 0 THEN <<"\"port\":" \o FormatInt(d.port)>> ELSE <<>>),
                ",") \o "}"

\* the first position from i on that holds no space
RECURSIVE Skip(_, _)
Skip(b, i) == IF Char(b, i) = " " THEN Skip(b, i + 1) ELSE i

\* the first position from i on that holds no digit
RECURSIVE DigitsEnd(_, _)
DigitsEnd(b, i) == IF Char(b, i) \in Digits THEN DigitsEnd(b, i + 1) ELSE i

ScanFail == [ok |-> FALSE, kind |-> "", val |-> "", next |-> 0]

\* the character a \uXXXX escape stands for, "" when the model has none
UnicodeEscape(hex) ==
    CASE hex \in {"003c", "003C"} -> "<"
      [] hex \in {"003e", "003E"} -> ">"
      [] hex = "0026" -> "&"
      [] hex = "0022" -> "\""
      [] hex \in {"005c", "005C"} -> "\\"
      [] OTHER -> ""

\* the string literal whose opening quote is just before i
RECURSIVE ScanString(_, _, _)
ScanString(b, i, acc) ==
    LET c == Char(b, i) IN
    IF i > Len(b) THEN ScanFail
    ELSE IF c = "\"" THEN [ok |-> TRUE, kind |-> "string", val |-> acc, next |-> i + 1]
    ELSE IF c = "\\"
         THEN LET e == Char(b, i + 1) IN
              IF e \in {"\"", "\\", "/"} THEN ScanString(b, i + 2, acc \o e)
              ELSE IF e = "u" /\ UnicodeEscape(Slice(b, i + 2, i + 5)) # ""
                   THEN ScanString(b, i + 6, acc \o UnicodeEscape(Slice(b, i + 2, i + 5)))
              ELSE ScanFail
    ELSE ScanString(b, i + 1, acc \o c)

\* the value that starts at i
ScanValue(b, i) ==
    LET c == Char(b, i) IN
    IF c = "\"" THEN ScanString(b, i + 1, "")
    ELSE IF c \in Digits \cup {"-"}
         THEN LET start == IF c = "-" THEN i + 1 ELSE i
                  end == DigitsEnd(b, start)
                  text == Slice(b, start, end - 1)
              IN IF text = "" \/ (Len(text) > 1 /\ Char(text, 1) = "0") THEN ScanFail
                 ELSE [ok |-> TRUE, kind |-> IF c = "-" THEN "negative" ELSE "number",
                       val |-> text, next |-> end]
    ELSE IF Slice(b, i, i + 3) = "null"
         THEN [ok |-> TRUE, kind |-> "null", val |-> "", next |-> i + 4]
    ELSE IF Slice(b, i, i + 3) = "true"
         THEN [ok |-> TRUE, kind |-> "bool", val |-> "", next |-> i + 4]
    ELSE IF Slice(b, i, i + 4) = "false"
         THEN [ok |-> TRUE, kind |-> "bool", val |-> "", next |-> i + 5]
    ELSE ScanFail

DocFail == [ok |-> FALSE, kind |-> "", members |-> <<>>]

\* the members of an object from the key at i to the closing brace
RECURSIVE ScanMembers(_, _, _)
ScanMembers(b, i, acc) ==
    LET i1 == Skip(b, i)
        k == ScanString(b, i1 + 1, "")
        i2 == Skip(b, k.next)
        v == ScanValue(b, Skip(b, i2 + 1))
        i3 == Skip(b, v.next)
        acc2 == Append(acc, [key |-> k.val, kind |-> v.kind, val |-> v.val])
    IN IF Char(b, i1) # "\"" THEN DocFail
       ELSE IF ~k.ok THEN DocFail
       ELSE IF Char(b, i2) # ":" THEN DocFail
       ELSE IF ~v.ok THEN DocFail
       ELSE IF Char(b, i3) = "," THEN ScanMembers(b, i3 + 1, acc2)
       ELSE IF Char(b, i3) = "}" /\ Skip(b, i3 + 1) = Len(b) + 1
            THEN [ok |-> TRUE, kind |-> "object", members |-> acc2]
       ELSE DocFail

\* the whole document
ScanDocument(b) ==
    LET i == Skip(b, 1) IN
    IF Char(b, i) = "{"
    THEN LET j == Skip(b, i + 1) IN
         IF Char(b, j) = "}"
         THEN IF Skip(b, j + 1) = Len(b) + 1
              THEN [ok |-> TRUE, kind |-> "object", members |-> <<>>]
              ELSE DocFail
         ELSE ScanMembers(b, j, <<>>)
    ELSE LET v == ScanValue(b, i) IN
         IF v.ok /\ Skip(b, v.next) = Len(b) + 1
         THEN [ok |-> TRUE, kind |-> v.kind, members |-> <<>>]
         ELSE DocFail

\* keys match the struct tags without regard to case
LowerChar(c) ==
    IF \E k \in 1..26 : Char("ABCDEFGHIJKLMNOPQRSTUVWXYZ", k) = c
    THEN Char("abcdefghijklmnopqrstuvwxyz",
              CHOOSE k \in 1..26 : Char("ABCDEFGHIJKLMNOPQRSTUVWXYZ", k) = c)
    ELSE c

RECURSIVE ToLower(_)
ToLower(s) == IF Len(s) = 0 THEN "" ELSE LowerChar(Char(s, 1)) \o ToLower(SubSeq(s, 2, Len(s)))

\* the value of at most five decimal digits
RECURSIVE DecimalValue(_)
DecimalValue(s) ==
    IF Len(s) = 0 THEN 0
    ELSE DecimalValue(SubSeq(s, 1, Len(s) - 1)) * 10 + DigitVal(Char(s, Len(s)))

MaxUint16 == 65535

FitsUint16(text) == Len(text) <= 5 /\ DecimalValue(text) <= MaxUint16

\* one member stored into the input struct; an error is kept and decoding goes on
StoreMember(in, m) ==
    LET key == ToLower(m.key)
        bad == [in EXCEPT !.err = IF in.err = NoError THEN ErrJSONType ELSE in.err]
    IN IF m.kind = "null" \/ key \notin {"scheme", "host", "port"} THEN in
       ELSE IF key = "scheme"
            THEN IF m.kind = "string" THEN [in EXCEPT !.Scheme = m.val] ELSE bad
       ELSE IF key = "host"
            THEN IF m.kind = "string" THEN [in EXCEPT !.Host = m.val] ELSE bad
       ELSE IF m.kind = "number" /\ FitsUint16(m.val)
            THEN [in EXCEPT !.Port = DecimalValue(m.val)]
       ELSE bad

RECURSIVE StoreMembers(_, _)
StoreMembers(in, members) ==
    IF Len(members) = 0 THEN in
    ELSE StoreMembers(StoreMember(in, Head(members)), Tail(members))

ZeroInput == [err |-> NoError, Scheme |-> "", Host |-> "", Port |-> 0]

\* json.Unmarshal(b, &input) on the zero input struct
jsonUnmarshal(b) ==
    LET doc == ScanDocument(b) IN
    IF ~doc.ok THEN [ZeroInput EXCEPT !.err = ErrJSONSyntax]
    ELSE IF doc.kind = "null" THEN ZeroInput
    ELSE IF doc.kind # "object" THEN [ZeroInput EXCEPT !.err = ErrJSONType]
    ELSE StoreMembers(ZeroInput, doc.members)

\* UnmarshalJSON that overwrites only the fields the input sets
unmarshalJSON_Merge(d, b) ==
    LET in == jsonUnmarshal(b) IN
    IF in.err # NoError THEN [uri |-> d, err |-> in.err]
    ELSE [uri |-> URI(IF in.Scheme # "" THEN in.Scheme ELSE d.scheme,
                      IF in.Host # "" THEN in.Host ELSE d.host,
                      IF in.Port # 0 THEN in.Port ELSE d.port),
          err |-> NoError]

\* (u *URI) UnmarshalJSON(b)
unmarshalJSON(d, b) ==
    LET in == jsonUnmarshal(b) IN
    IF in.err # NoError THEN [uri |-> d, err |-> in.err]
    ELSE [uri |-> URI(in.Scheme, in.Host, in.Port), err |-> NoError]

-----------------------------------------------------------------------------
(* The calls a holder of the *URI u makes.  A method is called on a       *)
(* descriptor that exists: calling through a nil pointer is the caller's   *)
(* error and is left out.                                                  *)

NoArg == [s |-> "", n |-> 0]

\* u = DefaultURI()
DefaultURICall ==
    /\ u' = DefaultURI
    /\ err' = NoError
    /\ op' = "DefaultURI"
    /\ arg' = NoArg
    /\ decoded' = FALSE
    /\ UNCHANGED <<intSize, other, wire, json, out>>

\* u, err = NewURIFromHostPort(host, port)
NewURIFromHostPort(host, port) ==
    LET r == newURIFromHostPort(host, port) IN
    /\ u' = r.uri
    /\ err' = r.err
    /\ op' = "NewURIFromHostPort"
    /\ arg' = [s |-> host, n |-> port]
    /\ decoded' = FALSE
    /\ UNCHANGED <<intSize, other, wire, json, out>>

\* u, err = NewURIFromAddress(address)
NewURIFromAddress(address) ==
    LET r == parseAddress(address, intSize) IN
    /\ u' = r.uri
    /\ err' = r.err
    /\ op' = "NewURIFromAddress"
    /\ arg' = [s |-> address, n |-> 0]
    /\ decoded' = FALSE
    /\ UNCHANGED <<intSize, other, wire, json, out>>

\* err = u.SetScheme(scheme)
SetScheme(scheme) ==
    /\ u # Nil
    /\ LET r == setScheme(u, scheme) IN u' = r.uri /\ err' = r.err
    /\ op' = "SetScheme"
    /\ arg' = [s |-> scheme, n |-> 0]
    /\ UNCHANGED <<intSize, decoded, other, wire, json, out>>

\* err = u.SetHost(host)
SetHost(host) ==
    /\ u # Nil
    /\ LET r == setHost(u, host) IN u' = r.uri /\ err' = r.err
    /\ op' = "SetHost"
    /\ arg' = [s |-> host, n |-> 0]
    /\ UNCHANGED <<intSize, decoded, other, wire, json, out>>

\* u.SetPort(port)
SetPort(port) ==
    /\ u # Nil
    /\ u' = setPort(u, port)
    /\ err' = NoError
    /\ op' = "SetPort"
    /\ arg' = [s |-> "", n |-> port]
    /\ UNCHANGED <<intSize, decoded, other, wire, json, out>>

\* err = u.Set(value)
Set(value) ==
    /\ u # Nil
    /\ LET r == set(u, value, intSize) IN u' = r.uri /\ err' = r.err
    /\ op' = "Set"
    /\ arg' = [s |-> value, n |-> 0]
    /\ UNCHANGED <<intSize, decoded, other, wire, json, out>>

\* *u = DecodeURI(i): the envelope i is consumed
DecodeURI(i) ==
    /\ u' = decodeURI(i)
    /\ err' = NoError
    /\ op' = "DecodeURI"
    /\ arg' = NoArg
    /\ decoded' = TRUE
    /\ wire' = i
    /\ UNCHANGED <<intSize, other, json, out>>

\* err = u.UnmarshalJSON(b): the bytes b are consumed
UnmarshalJSON(b) ==
    /\ u # Nil
    /\ LET r == unmarshalJSON(u, b) IN u' = r.uri /\ err' = r.err
    /\ op' = "UnmarshalJSON"
    /\ arg' = NoArg
    /\ decoded' = TRUE
    /\ json' = b
    /\ UNCHANGED <<intSize, other, wire, out>>

\* wire = other.Encode(): the peer's descriptor goes on the wire
Encode ==
    /\ other # Nil
    /\ wire' = encodeURI(other)
    /\ err' = NoError
    /\ op' = "Encode"
    /\ arg' = NoArg
    /\ UNCHANGED <<intSize, u, decoded, other, json, out>>

\* json, err = other.MarshalJSON()
MarshalJSON ==
    /\ other # Nil
    /\ json' = marshalJSON(other)
    /\ err' = NoError
    /\ op' = "MarshalJSON"
    /\ arg' = NoArg
    /\ UNCHANGED <<intSize, u, decoded, other, wire, out>>

\* out = u.Equals(other)
EqualsCall ==
    /\ u # Nil
    /\ out' = Equals(u, other)
    /\ err' = NoError
    /\ op' = "Equals"
    /\ arg' = NoArg
    /\ UNCHANGED <<intSize, u, decoded, other, wire, json>>

\* out = u.Normalize()
NormalizeCall ==
    /\ u # Nil
    /\ out' = Normalize(u)
    /\ err' = NoError
    /\ op' = "Normalize"
    /\ arg' = NoArg
    /\ UNCHANGED <<intSize, u, decoded, other, wire, json>>

\* out = u.String()
StringCall ==
    /\ u # Nil
    /\ out' = String(u)
    /\ err' = NoError
    /\ op' = "String"
    /\ arg' = NoArg
    /\ UNCHANGED <<intSize, u, decoded, other, wire, json>>

-----------------------------------------------------------------------------
(* Inputs of the parser specification *)

SchemeParts == {"", "http", "https", "http+tls", "+"}

HostParts == {"", "localhost", "node1", "10.0.0.1", "a-b.c", "[::1]",
              "[fd42:4201:F86b:7e09:216:3eff:fefa:ed80]"}

PortParts == {"", "10101", "9999", "0", "80", "0080", "65535", "65536", "70000",
              "2147483647", "2147483648", "9223372036854775807",
              "9223372036854775808", "99999999999999999999",
              "00000000000000000000080"}

\* [scheme://][host][:port] from its parts, "" for an absent part
Compose(sp, hp, pp) ==
    (IF sp = "" THEN "" ELSE sp \o "://") \o hp \o (IF pp = "" THEN "" ELSE ":" \o pp)

WellFormedAddresses == { Compose(sp, hp, pp) : sp \in SchemeParts, hp \in HostParts,
                                               pp \in PortParts }

\* strings that violate the grammar, with the part that is malformed
BadPortAddresses == {"http://host:abc", "foo:bar", ":bar", "foo:", "http://foo:",
                     "localhost:-1", "localhost:80x", "localhost:+80", "host: 80"}

BadHostAddresses == {"http://[not-hex]", "bad_host!!:10101", "Localhost", "[::1",
                     "::1]", "[]", "[]:80", "a b", "fd42:4201:f86b:7e09:216:3eff:fefa:ed80",
                     "http://http://a"}

BadSchemeAddresses == {"HTTP://localhost", "http//localhost", "http:/localhost",
                       "://localhost", "ht1tp://localhost", "http:///"}

RawAlphabet == {"a", "+", ":", "/", "1", "[", "]", "x"}

MaxLen == 3

RECURSIVE StringsUpTo(_)
StringsUpTo(n) ==
    IF n = 0 THEN {""}
    ELSE LET shorter == StringsUpTo(n - 1)
         IN shorter \cup { s \o c : s \in { t \in shorter : Len(t) = n - 1 },
                                    c \in RawAlphabet }

ParseInputs == WellFormedAddresses \cup BadPortAddresses \cup BadHostAddresses
                 \cup BadSchemeAddresses \cup StringsUpTo(MaxLen)

-----------------------------------------------------------------------------
(* Specifications *)

\* no descriptor yet, nothing in flight
Init ==
    /\ intSize \in {32, 64}
    /\ u = Nil
    /\ err = NoError
    /\ op = "init"
    /\ arg = NoArg
    /\ decoded = FALSE
    /\ other = Nil
    /\ wire = Nil
    /\ json = ""
    /\ out = ""

\* arguments of the life-cycle specification, valid and invalid
SetterSchemes == {"http+tls", "", "HTTP", "ht_tp"}

SetterHosts == {"node1", "[::1]", "", "[not-hex]", "Node1"}

SetterPorts == {0, 65535}

Addresses == {"", ":80", "http+tls://node1:9999", "localhost:70000",
              "http://host:abc", ":99999999999999999999"}

WireInputs == {Nil, [Scheme |-> "HTTP!", Host |-> "a b", Port |-> 70000]}

JSONInputs == {"{}", "{\"port\":70000}",
               "{ \"Scheme\" : \"HTTP!\" , \"host\":\"a b\", \"x\" : true }"}

Next ==
    \/ DefaultURICall
    \/ \E h \in SetterHosts, p \in SetterPorts : NewURIFromHostPort(h, p)
    \/ \E a \in Addresses : NewURIFromAddress(a)
    \/ \E s \in SetterSchemes : SetScheme(s)
    \/ \E h \in SetterHosts : SetHost(h)
    \/ \E p \in SetterPorts : SetPort(p)
    \/ \E v \in Addresses : Set(v)
    \/ \E i \in WireInputs : DecodeURI(i)
    \/ \E b \in JSONInputs : UnmarshalJSON(b)

\* the life cycle of one descriptor: factories, setters, the flag adapter, decoding
Spec == Init /\ [][Next]_vars

\* the parser as a pure function: the address is drawn once, then parsed
InitParse ==
    /\ intSize \in {32, 64}
    /\ u = Nil
    /\ err = NoError
    /\ op = "input"
    /\ arg \in { [s |-> a, n |-> 0] : a \in ParseInputs }
    /\ decoded = FALSE
    /\ other = Nil
    /\ wire = Nil
    /\ json = ""
    /\ out = ""

ParseStep == op = "input" /\ NewURIFromAddress(arg.s)

NextParse == ParseStep

SpecParse == InitParse /\ [][NextParse]_vars

\* descriptors of the value specification, valid and not, with the port's extremes
ValueSchemes == {"http", "http+tls", "a+b+c", ""}

ValueHosts == {"localhost", "a\"b\\c<d>&e", ""}

ValuePorts == {0, 10101, 65535}

Descriptors == { URI(s, h, p) : s \in ValueSchemes, h \in ValueHosts, p \in ValuePorts }
                 \cup {URI("http+tls", "node1", 9999), URI("+x", "[::1]", 1)}

Targets == {DefaultURI, URI("", "", 0), URI("http", "node1", 9999)}

\* a peer's descriptor other and the holder's descriptor u, both drawn
InitValue ==
    /\ intSize = 64
    /\ u \in Targets
    /\ err = NoError
    /\ op = "init"
    /\ arg = NoArg
    /\ decoded = FALSE
    /\ other \in Descriptors \cup {Nil}
    /\ wire = Nil
    /\ json = ""
    /\ out = ""

NextValue ==
    \/ Encode
    \/ DecodeURI(wire)
    \/ MarshalJSON
    \/ UnmarshalJSON(json)
    \/ EqualsCall
    \/ NormalizeCall
    \/ StringCall

\* the codecs, the comparison and the renderers on drawn descriptors
SpecValue == InitValue /\ [][NextValue]_vars

-----------------------------------------------------------------------------
(* Properties of the parser, under SpecParse *)

Parsed == op = "NewURIFromAddress"

\* the port parts whose value exceeds the largest int of the build
PortPartsOverInt(bits) ==
    IF bits = 32
    THEN {"2147483648", "9223372036854775807", "9223372036854775808",
          "99999999999999999999"}
    ELSE {"9223372036854775808", "99999999999999999999"}

\* the documented equivalent spellings of the default address
DefaultSpellings == {"http://localhost:10101", "http://localhost", "http://:10101",
                     "localhost:10101", "localhost", ":10101", ""}

AbsentPartsDefaulted(sp, hp, pp) ==
    /\ sp = "" => u.scheme = "http"
    /\ hp = "" => u.host = "localhost"
    /\ pp = "" => u.port = 10101

\* C1 as stated: every string [scheme://][host][:port] parses, each absent
\* component takes its default, and the seven spellings of the default address
\* all give DefaultURI.
C1_Original ==
    Parsed =>
      /\ \A sp \in SchemeParts, hp \in HostParts, pp \in PortParts :
            arg.s = Compose(sp, hp, pp) =>
              err = NoError /\ u # Nil /\ AbsentPartsDefaulted(sp, hp, pp)
      /\ arg.s \in DefaultSpellings => err = NoError /\ u = DefaultURI

\* C1 amended: a string [scheme://][host][:port] parses unless its port part
\* exceeds the largest int of the build, in which case parsing fails with the
\* port-conversion error and no descriptor; when it parses, each absent
\* component takes its default; the seven spellings all give DefaultURI.
C1_ParseDefaults ==
    Parsed =>
      /\ \A sp \in SchemeParts, hp \in HostParts, pp \in PortParts :
            arg.s = Compose(sp, hp, pp) =>
              IF pp \in PortPartsOverInt(intSize)
              THEN err = ErrPortConversion /\ u = Nil
              ELSE err = NoError /\ u # Nil /\ AbsentPartsDefaulted(sp, hp, pp)
      /\ arg.s \in DefaultSpellings => err = NoError /\ u = DefaultURI

C1_Witness ==
    /\ Parsed
    /\ arg.s = "https://:9999"
    /\ err = NoError
    /\ u = URI("https", "localhost", 9999)

(***************************************************************************)
(* The language of the grammar over RawAlphabet, built from its parts and  *)
(* not by matching: the strings of StringsUpTo(MaxLen) outside it violate  *)
(* the grammar.                                                            *)
(***************************************************************************)
RawOver(cls) == { s \in StringsUpTo(MaxLen) : \A i \in 1..Len(s) : Char(s, i) \in cls }

RawSchemeParts == RawOver({"a", "x", "+"})

RawHostParts == RawOver({"a", "x", "1"})
                  \cup { "[" \o s \o "]" : s \in RawOver({"a", "1", ":"}) \ {""} }

RawPortParts == RawOver({"1"})

RawLanguage == { Compose(sp, hp, pp) : sp \in RawSchemeParts, hp \in RawHostParts,
                                       pp \in RawPortParts }

ViolatesGrammar(s) ==
    \/ s \in BadPortAddresses \cup BadHostAddresses \cup BadSchemeAddresses
    \/ s \in StringsUpTo(MaxLen) \ RawLanguage

\* C2 as stated: a string that violates the grammar fails to parse with no
\* descriptor; a malformed port reports the port-conversion error, a malformed
\* host or scheme the invalid-address error.
C2_Original ==
    (Parsed /\ ViolatesGrammar(arg.s)) =>
      /\ u = Nil
      /\ arg.s \in BadPortAddresses => err = ErrPortConversion
      /\ arg.s \in BadHostAddresses \cup BadSchemeAddresses => err = ErrInvalidAddress

\* C2 amended: every string that violates the grammar, a malformed port
\* included, fails with the invalid-address error and no descriptor; the
\* port-conversion error is reported only for a string that matches the
\* grammar and whose port part exceeds the largest int of the build.
C2_ParseErrors ==
    Parsed =>
      /\ ViolatesGrammar(arg.s) => u = Nil /\ err = ErrInvalidAddress
      /\ err = ErrPortConversion =>
            /\ u = Nil
            /\ \E sp \in SchemeParts, hp \in HostParts, pp \in PortPartsOverInt(intSize) :
                  arg.s = Compose(sp, hp, pp)
      /\ (u = Nil) <=> (err # NoError)

C2_Witness ==
    /\ Parsed
    /\ arg.s = "http://host:abc"
    /\ u = Nil
    /\ err = ErrInvalidAddress

\* C10 as stated: when an address with a port part parses, the port of the
\* descriptor is the decimal value written in the port part.
C10_PortIsWritten ==
    Parsed =>
      \A sp \in SchemeParts, hp \in HostParts, pp \in PortParts \ {""} :
        (arg.s = Compose(sp, hp, pp) /\ err = NoError) =>
          FormatInt(u.port) = TrimZeros(pp)

-----------------------------------------------------------------------------
(* The field patterns as the data model states them, by membership of each *)
(* byte in a list, apart from the matchers of the model.                   *)

CharIn(c, list) == \E k \in 1..Len(list) : SubSeq(list, k, k) = c

AllCharsIn(s, list) == \A k \in 1..Len(s) : CharIn(SubSeq(s, k, k), list)

\* one or more of the lowercase letters and "+"
IsScheme(s) == Len(s) >= 1 /\ AllCharsIn(s, "abcdefghijklmnopqrstuvwxyz+")

\* one or more of lowercase letters, digits, "." and "-", or hex digits and
\* colons in brackets
IsHost(s) ==
    \/ Len(s) >= 1 /\ AllCharsIn(s, "abcdefghijklmnopqrstuvwxyz0123456789.-")
    \/ /\ Len(s) >= 3
       /\ SubSeq(s, 1, 1) = "["
       /\ SubSeq(s, Len(s), Len(s)) = "]"
       /\ AllCharsIn(SubSeq(s, 2, Len(s) - 1), "0123456789abcdefABCDEF:")

IsValid(d) == IsScheme(d.scheme) /\ IsHost(d.host) /\ d.port \in 0..65535

-----------------------------------------------------------------------------
(* Properties of the life cycle, under Spec *)

\* C3: SetScheme (SetHost) with an argument outside the scheme (host) pattern
\* returns the field's error and leaves scheme, host and port as they were;
\* with an argument inside it, it sets that one field to the argument and
\* leaves the other two as they were.
C3_SettersFrame ==
    [][ /\ op' = "SetScheme" =>
             IF IsScheme(arg'.s)
             THEN err' = NoError /\ u' = URI(arg'.s, u.host, u.port)
             ELSE err' = ErrInvalidScheme /\ u' = u
        /\ op' = "SetHost" =>
             IF IsHost(arg'.s)
             THEN err' = NoError /\ u' = URI(u.scheme, arg'.s, u.port)
             ELSE err' = ErrInvalidHost /\ u' = u ]_vars

\* a rejected SetHost on a descriptor whose fields were all set away from
\* their defaults before
C3_Witness ==
    /\ op = "SetHost"
    /\ arg.s = "[not-hex]"
    /\ err = ErrInvalidHost
    /\ u = URI("http+tls", "node1", 0)

\* C8: when s parses, u.Set(s) leaves u equal in all three fields to
\* NewURIFromAddress(s), whatever u held before, the omitted components at
\* their defaults; when s does not parse, Set returns the parser's error and
\* u is unchanged.
C8_SetReplacesOrKeeps ==
    [][ op' = "Set" =>
          LET r == parseAddress(arg'.s, intSize) IN
          /\ IF r.err = NoError
             THEN err' = NoError /\ u' = r.uri
             ELSE err' = r.err /\ u' = u
          /\ arg'.s = ":80" => u' = URI("http", "localhost", 80)
          /\ arg'.s = "http://host:abc" => err' = ErrInvalidAddress /\ u' = u ]_vars

\* Set(":80") has replaced the whole descriptor
C8_Witness ==
    /\ op = "Set"
    /\ arg.s = ":80"
    /\ err = NoError
    /\ u = URI("http", "localhost", 80)

\* C9: a descriptor that came from DefaultURI, NewURIFromHostPort or
\* NewURIFromAddress and went through SetScheme, SetHost, SetPort and Set
\* calls only, failed or not, has a scheme and a host that match their
\* patterns; a descriptor outside them has been through DecodeURI or
\* UnmarshalJSON.
C9_ValidUnlessDecoded ==
    (u # Nil /\ ~decoded) => IsScheme(u.scheme) /\ IsHost(u.host)

\* a factory-made descriptor after a rejected setter call
C9_Witness ==
    /\ ~decoded
    /\ op = "SetScheme"
    /\ err = ErrInvalidScheme
    /\ u = URI("http+tls", "node1", 9999)

-----------------------------------------------------------------------------
(* Properties of the codecs, Equals and the renderers, under SpecValue *)

\* C4: DecodeURI of the envelope that Encode made of a descriptor gives the
\* descriptor back field for field, the ports 0 and 65535 included; the port
\* on the wire is the descriptor's port.
C4_WireRoundTrip ==
    [][ /\ op' = "Encode" => wire'.Port = other.port
        /\ (op = "Encode" /\ op' = "DecodeURI") => u' = other ]_vars

\* port 65535 has crossed the wire
C4_Witness ==
    /\ op = "DecodeURI"
    /\ wire # Nil
    /\ wire.Port = 65535
    /\ u = other
    /\ u.port = 65535

\* C5: UnmarshalJSON of the bytes that MarshalJSON made of a valid descriptor
\* succeeds and leaves the target equal to the descriptor, whatever the
\* target held before, also when a zero field was omitted from the bytes.
C5_JSONRoundTrip ==
    [][ (op = "MarshalJSON" /\ op' = "UnmarshalJSON" /\ IsValid(other)) =>
          err' = NoError /\ u' = other ]_vars

\* a descriptor with port 0, its port omitted from the bytes, has been decoded
C5_Witness ==
    /\ op = "UnmarshalJSON"
    /\ json = "{\"scheme\":\"http\",\"host\":\"localhost\"}"
    /\ err = NoError
    /\ u = URI("http", "localhost", 0)
    /\ u = other

\* C6: Equals is true exactly when scheme, host and port are each identical,
\* so "http" and "http+tls" with the same host and port are unequal; it is
\* reflexive and symmetric, and false against nil.
C6_EqualsExact ==
    op = "Equals" =>
      /\ out = (other # Nil /\ u.scheme = other.scheme /\ u.host = other.host
                            /\ u.port = other.port)
      /\ other = Nil => out = FALSE
      /\ Equals(u, u)
      /\ other # Nil => Equals(other, other) /\ Equals(other, u) = out
      /\ ~Equals(URI("http", u.host, u.port), URI("http+tls", u.host, u.port))

\* "http" against "http+tls" on the same host and port
C6_Witness ==
    /\ op = "Equals"
    /\ u = URI("http", "node1", 9999)
    /\ other = URI("http+tls", "node1", 9999)
    /\ out = FALSE

\* the scheme cut just before its first "+", whole when it has none
BeforePlus(scheme) ==
    CHOOSE p \in { SubSeq(scheme, 1, k) : k \in 0..Len(scheme) } :
      /\ ~CharIn("+", p)
      /\ p = scheme \/ SubSeq(scheme, Len(p) + 1, Len(p) + 1) = "+"

\* C7: Normalize renders "<s>://<host>:<port>" with s the scheme cut just
\* before its first "+", String renders the whole scheme, and the two agree
\* exactly when the scheme has no "+"; "http+tls://node1:9999" parses to
\* (http+tls, node1, 9999), dials as "http://node1:9999" and displays as
\* "http+tls://node1:9999".
C7_Renders ==
    /\ op = "Normalize" =>
         out = BeforePlus(u.scheme) \o "://" \o u.host \o ":" \o FormatInt(u.port)
    /\ op = "String" =>
         out = u.scheme \o "://" \o u.host \o ":" \o FormatInt(u.port)
    /\ op \in {"Normalize", "String"} =>
         ((Normalize(u) = String(u)) <=> ~CharIn("+", u.scheme))
    /\ (op = "Normalize" /\ u = parseAddress("http+tls://node1:9999", intSize).uri) =>
         out = "http://node1:9999" /\ String(u) = "http+tls://node1:9999"

\* the dialing form of a scheme with two "+"
C7_Witness ==
    /\ op = "Normalize"
    /\ u.scheme = "a+b+c"
    /\ out = "a://localhost:10101"

=============================================================================
